---- MODULE Spec2Model ----
(***************************************************************************)
(* A model of src/gc/sample/GCSample.cpp: the allocation fast path         *)
(* (AllocateObject), the card-marking write barrier (ErectWriteBarrier,    *)
(* WriteBarrier) and the sample's main program, together with the parts of *)
(* the GC heap and of the handle table they call (GCHeap::Alloc,           *)
(* GCHeap::GarbageCollect, CreateGlobalHandle, ...), which live outside    *)
(* GCSample.cpp and are modelled from the specification.                   *)
(*                                                                         *)
(* Addresses are byte addresses (naturals).  Memory is a sparse map from   *)
(* word addresses to word values; a word that is not in the map reads as   *)
(* zero.                                                                   *)
(***************************************************************************)
EXTENDS Integers, Sequences, FiniteSets, TLC

VARIABLES
    alloc_ptr,          \* acontext->alloc_ptr of the current thread
    alloc_limit,        \* acontext->alloc_limit of the current thread
    mem,                \* memory: word address -> word value
    objects,            \* the heap's objects: address -> [id, mt, fld]
    handles,            \* the handle table: index -> [kind, slot, id]
    g_card_table,       \* card index -> card byte
    g_lowest_address,
    g_highest_address,
    g_ephemeral_low,
    g_ephemeral_high,
    crashed,            \* the process was ended by a fault
    ret,                \* the value the last call returned (0 for void)
    trace,              \* what the last call asked of the heap
    last,               \* history: the last call and its arguments
    dirty,              \* history: card index -> written with a young
                        \* reference since the card was last cleared
    calls,              \* history: steps taken (SpecBarrier, Spec)
    pc, pObj, oh, p, i, ohWeak,  \* main: position and locals
    threads,            \* thread -> its position and locals in the call it
                        \* runs, when threads run concurrently
    old_card_table      \* the card table the heap replaced when it grew

ctx      == <<alloc_ptr, alloc_limit>>
history  == <<last, dirty, calls>>
bounds4  == <<g_lowest_address, g_highest_address,
              g_ephemeral_low, g_ephemeral_high>>
mainvars == <<pc, pObj, oh, p, i, ohWeak>>
extvars  == <<threads, old_card_table>>
vars     == <<alloc_ptr, alloc_limit, mem, objects, handles, g_card_table,
              g_lowest_address, g_highest_address, g_ephemeral_low,
              g_ephemeral_high, crashed, ret, trace, last, dirty, calls,
              pc, pObj, oh, p, i, ohWeak, threads, old_card_table>>

----------------------------------------------------------------------------
(* Platform (the _WIN64 build).                                            *)

card_byte_shift == 11

PtrSize == 8

NULL == 0

CardSize == 2 ^ card_byte_shift

card_byte(addr) == addr \div CardSize

CardMarked == 255

----------------------------------------------------------------------------
(* Bounds of the model.                                                    *)

\* bytes of a region the heap hands to an allocation context
RegionSize == 48

\* the heap refuses to carve a new region once it holds this many objects
MaxObjects == 3

\* capacity of the handle table
NumHandles == 2

\* iterations of main's loop (1000000 in the sample)
LoopCount == 4

\* barrier and card-table steps of a run of SpecBarrier
MaxCalls == 3

\* calls of a run of Spec
MaxOps == 6

\* threads that run concurrently
NumThreads == 2

\* calls the concurrent threads make in a run, all threads together
MaxThreadCalls == 2

\* calls of AllocateObject the concurrent threads make in a run, all
\* threads together
MaxAllocCalls == 4

----------------------------------------------------------------------------
(* The address space of the model: one card below the heap, the heap       *)
(* (an old area, the ephemeral area, another old area), one card above.    *)

InitLowest  == CardSize
InitEphLow  == 2 * CardSize
InitEphHigh == 3 * CardSize
InitHighest == 4 * CardSize

CardIndices == 0 .. card_byte(InitHighest)

\* where the heap carves regions for allocation contexts
RegionBases == {InitEphLow, InitEphLow + (CardSize \div 2)}

\* where a compacting collection may slide the survivors to
CompactBases == {InitLowest, InitEphHigh}

\* field addresses handed to the write barrier: a stack slot just below the
\* heap, the first and the last word of the heap, a field of an object in
\* the ephemeral area, and the first word above the heap
BarrierDsts ==
    {InitLowest - PtrSize, InitLowest, InitEphLow + PtrSize,
     InitHighest - PtrSize, InitHighest}

\* values stored through the write barrier: null, the last object below
\* the ephemeral area, the first and the last object in it, and the first
\* object above it
BarrierRefs ==
    {NULL, InitEphLow - 3 * PtrSize, InitEphLow, InitEphHigh - 3 * PtrSize,
     InitEphHigh}

----------------------------------------------------------------------------
(* Method tables.                                                          *)

\* &My_MethodTable.m_MT, in static storage below the heap
pMyMethodTable == 64

\* a method table whose m_baseSize is zero
pEmptyMT == pMyMethodTable + 64

\* a method table of an object with one 4-byte field and no padding
pOddMT == pEmptyMT + 64

ProgramMTs == {pMyMethodTable}

AllMTs == {pMyMethodTable, pEmptyMT, pOddMT}

GetBaseSize(pMT) ==
    IF pMT = pMyMethodTable THEN 3 * PtrSize
    ELSE IF pMT = pOddMT THEN PtrSize + 4
    ELSE 0

\* offsets of the reference fields (the GCDesc series of the type)
SeriesOffsets(pMT) ==
    IF pMT = pMyMethodTable THEN {PtrSize} ELSE {}

----------------------------------------------------------------------------
(* Memory.                                                                 *)

Read(m, a) == IF a \in DOMAIN m THEN m[a] ELSE NULL

Store(m, a, v) == [x \in DOMAIN m \cup {a} |-> IF x = a THEN v ELSE m[x]]

----------------------------------------------------------------------------
(* What a call asked of the heap: how often it entered GCHeap::Alloc, the  *)
(* allocation context GCHeap::Alloc was handed and the object it returned, *)
(* whether a collection ran and where the objects it moved now are.        *)

NoTrace ==
    [calls |-> 0, ptr |-> 0, limit |-> 0, obj |-> 0, gc |-> FALSE,
     moved |-> {}]

----------------------------------------------------------------------------
(* The collector (GCHeap::GarbageCollect and the collection GCHeap::Alloc  *)
(* may trigger).  Strong handles are the only roots: the sample reports no *)
(* stack roots.  A collection keeps the objects reachable from the roots,  *)
(* either in place (mode 0) or slid together, in address order, to the     *)
(* address `mode`; it rewrites the handle slots and the reference fields   *)
(* of the survivors and clears the weak handles of the objects that died.  *)

GCModes == {0} \cup CompactBases

Roots(hnd) ==
    {hnd[h].slot : h \in {x \in DOMAIN hnd : hnd[x].kind = "strong"}}

RefsOf(m, objs, q) ==
    {Read(m, q + off) : off \in SeriesOffsets(Read(m, q))} \cap DOMAIN objs

RECURSIVE Mark(_, _, _)
Mark(m, objs, seen) ==
    LET next == seen \cup UNION {RefsOf(m, objs, q) : q \in seen}
    IN  IF next = seen THEN seen ELSE Mark(m, objs, next)

Survivors(m, objs, hnd) == Mark(m, objs, Roots(hnd) \cap DOMAIN objs)

ObjSize(m, q) == GetBaseSize(Read(m, q))

RECURSIVE SizeSum(_, _)
SizeSum(m, S) ==
    IF S = {} THEN 0
    ELSE LET q == CHOOSE x \in S : TRUE
         IN  ObjSize(m, q) + SizeSum(m, S \ {q})

InHeap(a) == a >= g_lowest_address /\ a < g_highest_address

WordOffsets(m, q) == {w \in 0 .. (ObjSize(m, q) - 1) : w % PtrSize = 0}

\* survivor -> its address after the collection
Forward(m, S, mode) ==
    [q \in S |-> IF mode = 0 THEN q
                 ELSE mode + SizeSum(m, {x \in S : x < q})]

RelocatedMem(m, S, fwd) ==
    LET cells == {c \in S \X (0 .. (3 * PtrSize)) :
                     c[2] \in WordOffsets(m, c[1])
                     /\ (c[1] + c[2]) \in DOMAIN m}
        value(c) ==
            LET v == m[c[1] + c[2]]
            IN  IF c[2] \in SeriesOffsets(Read(m, c[1])) /\ v \in S
                THEN fwd[v] ELSE v
        outside == {a \in DOMAIN m : ~InHeap(a)}
    IN  [a \in outside \cup {fwd[c[1]] + c[2] : c \in cells} |->
            IF a \in outside THEN m[a]
            ELSE value(CHOOSE c \in cells : fwd[c[1]] + c[2] = a)]

RelocatedObjects(objs, S, fwd) ==
    [a \in {fwd[q] : q \in S} |-> objs[CHOOSE q \in S : fwd[q] = a]]

RelocatedHandles(hnd, S, fwd) ==
    [h \in DOMAIN hnd |->
        IF hnd[h].kind = "free" THEN hnd[h]
        ELSE [hnd[h] EXCEPT !.slot = IF hnd[h].slot \in S
                                     THEN fwd[hnd[h].slot] ELSE NULL]]

Collect(m, objs, hnd, mode) ==
    LET S   == Survivors(m, objs, hnd)
        fwd == Forward(m, S, mode)
    IN  [mem     |-> RelocatedMem(m, S, fwd),
         objects |-> RelocatedObjects(objs, S, fwd),
         handles |-> RelocatedHandles(hnd, S, fwd),
         moved   |-> {fwd[q] : q \in {x \in S : fwd[x] # x}}]

----------------------------------------------------------------------------
(* GCHeap::Alloc, the slow allocation path.  It reports out of memory      *)
(* (null, nothing changed), or, after an optional collection (mode -1:     *)
(* none), carves a free region, zeroes it, points the allocation context   *)
(* at it and returns the object allocated at its start.                    *)

RegionFree(objs, base) ==
    \A q \in DOMAIN objs : q < base \/ q >= base + RegionSize

ZeroRegion(m, base) ==
    [a \in {x \in DOMAIN m : x < base \/ x >= base + RegionSize} |-> m[a]]

Alloc(ptr, limit, m, objs, hnd, size) ==
    {[pObject |-> NULL, alloc_ptr |-> ptr, alloc_limit |-> limit, mem |-> m,
      objects |-> objs, handles |-> hnd, gc |-> FALSE, moved |-> {}]}
    \cup
    UNION {
      LET c == IF mode = -1
               THEN [mem |-> m, objects |-> objs, handles |-> hnd,
                     moved |-> {}]
               ELSE Collect(m, objs, hnd, mode)
      IN  {[pObject |-> base, alloc_ptr |-> base + size,
            alloc_limit |-> base + RegionSize,
            mem |-> ZeroRegion(c.mem, base), objects |-> c.objects,
            handles |-> c.handles, gc |-> mode # -1, moved |-> c.moved] :
             base \in {b \in RegionBases :
                         /\ RegionFree(c.objects, b)
                         /\ size <= RegionSize
                         /\ Cardinality(DOMAIN c.objects) < MaxObjects}}
      : mode \in {-1} \cup GCModes }

----------------------------------------------------------------------------
(* AllocateObject.                                                         *)

\* variant: the allocation pointer is bumped before the limit is checked
\* and is not restored when the check fails
FastPath_BumpKept(ptr, limit, size) ==
    LET result  == ptr
        advance == result + size
    IN  IF advance <= limit
        THEN [fast |-> TRUE, alloc_ptr |-> advance, pObject |-> result]
        ELSE [fast |-> FALSE, alloc_ptr |-> advance, pObject |-> NULL]

\* variant: the fast path hands out the allocation pointer without bumping it
FastPath_NoBump(ptr, limit, size) ==
    LET result  == ptr
        advance == result + size
    IN  IF advance <= limit
        THEN [fast |-> TRUE, alloc_ptr |-> ptr, pObject |-> result]
        ELSE [fast |-> FALSE, alloc_ptr |-> ptr, pObject |-> NULL]

\* lines 62-68: the bump of the allocation pointer
FastPath(ptr, limit, size) ==
    LET result  == ptr
        advance == result + size
    IN  IF advance <= limit
        THEN [fast |-> TRUE, alloc_ptr |-> advance, pObject |-> result]
        ELSE [fast |-> FALSE, alloc_ptr |-> ptr, pObject |-> NULL]

\* variant: the object is returned without its method table pointer
SetMethodTable_Skipped(m, pObject, pMT) == m

\* variant: the method table pointer is written into the second word
SetMethodTable_SecondWord(m, pObject, pMT) == Store(m, pObject + PtrSize, pMT)

\* line 76: the method table pointer is the first word of the object
SetMethodTable(m, pObject, pMT) == Store(m, pObject, pMT)

\* history: the identity of an object, which a relocation keeps: the
\* smallest number that no object has and no handle remembers
NewId(objs, hnd) ==
    LET used == {objs[q].id : q \in DOMAIN objs} \cup
                {hnd[h].id : h \in DOMAIN hnd}
    IN  CHOOSE n \in 1 .. (Cardinality(used) + 1) : n \notin used

Register(objs, hnd, pObject, pMT) ==
    [a \in DOMAIN objs \cup {pObject} |->
        IF a = pObject
        THEN [id |-> NewId(objs, hnd), mt |-> pMT, fld |-> 0]
        ELSE objs[a]]

AllocateObject(pMT) ==
    /\ ~crashed
    /\ LET size == GetBaseSize(pMT)
           f    == FastPath(alloc_ptr, alloc_limit, size)
       IN  \/ \* fast path
              /\ f.fast /\ f.pObject # NULL
              /\ alloc_ptr' = f.alloc_ptr
              /\ mem' = SetMethodTable(mem, f.pObject, pMT)
              /\ objects' = Register(objects, handles, f.pObject, pMT)
              /\ ret' = f.pObject
              /\ trace' = NoTrace
              /\ UNCHANGED <<alloc_limit, handles, crashed>>
           \/ \* fast path on a null allocation pointer: the method table
              \* is written through a null pointer; the store faults, or
              \* it lands at address zero and null is returned
              /\ f.fast /\ f.pObject = NULL
              /\ alloc_ptr' = f.alloc_ptr
              /\ \/ /\ crashed' = TRUE
                    /\ mem' = mem
                 \/ /\ crashed' = FALSE
                    /\ mem' = SetMethodTable(mem, f.pObject, pMT)
              /\ ret' = NULL
              /\ trace' = NoTrace
              /\ UNCHANGED <<alloc_limit, objects, handles>>
           \/ \* slow path
              /\ ~f.fast
              /\ \E o \in Alloc(f.alloc_ptr, alloc_limit, mem, objects,
                                handles, size) :
                    /\ alloc_ptr' = o.alloc_ptr
                    /\ alloc_limit' = o.alloc_limit
                    /\ handles' = o.handles
                    /\ IF o.pObject = NULL
                       THEN mem' = o.mem /\ objects' = o.objects
                       ELSE /\ mem' = SetMethodTable(o.mem, o.pObject, pMT)
                            /\ objects' = Register(o.objects, o.handles,
                                                   o.pObject, pMT)
                    /\ ret' = o.pObject
                    /\ trace' = [calls |-> 1, ptr |-> f.alloc_ptr,
                                 limit |-> alloc_limit, obj |-> o.pObject,
                                 gc |-> o.gc, moved |-> o.moved]
              /\ UNCHANGED crashed
    /\ UNCHANGED <<g_card_table, bounds4>>

----------------------------------------------------------------------------
(* The write barrier.                                                      *)

\* variant: any non-zero card byte is taken for a marked card
ErectWriteBarrier_NonZeroIsMarked(cards, dst, ref) ==
    IF dst < g_lowest_address \/ dst >= g_highest_address
    THEN cards
    ELSE IF ref >= g_ephemeral_low /\ ref < g_ephemeral_high
         THEN LET pCardByte == card_byte(dst)
              IN  IF cards[pCardByte] = 0
                  THEN [cards EXCEPT ![pCardByte] = CardMarked]
                  ELSE cards
         ELSE cards

\* variant: the destination is checked against the lowest address only
ErectWriteBarrier_NoUpperBound(cards, dst, ref) ==
    IF dst < g_lowest_address
    THEN cards
    ELSE IF ref >= g_ephemeral_low /\ ref < g_ephemeral_high
         THEN LET pCardByte == card_byte(dst)
              IN  IF cards[pCardByte] # CardMarked
                  THEN [cards EXCEPT ![pCardByte] = CardMarked]
                  ELSE cards
         ELSE cards

\* variant: the card byte is flipped instead of set
ErectWriteBarrier_Flip(cards, dst, ref) ==
    IF dst < g_lowest_address \/ dst >= g_highest_address
    THEN cards
    ELSE IF ref >= g_ephemeral_low /\ ref < g_ephemeral_high
         THEN LET pCardByte == card_byte(dst)
              IN  [cards EXCEPT ![pCardByte] = CardMarked - cards[pCardByte]]
         ELSE cards

\* variant: the card of the stored reference is marked, not the card of
\* the destination
ErectWriteBarrier_CardOfRef(cards, dst, ref) ==
    IF dst < g_lowest_address \/ dst >= g_highest_address
    THEN cards
    ELSE IF ref >= g_ephemeral_low /\ ref < g_ephemeral_high
         THEN LET pCardByte == card_byte(ref)
              IN  IF cards[pCardByte] # CardMarked
                  THEN [cards EXCEPT ![pCardByte] = CardMarked]
                  ELSE cards
         ELSE cards

\* variant: the card of the stored reference is marked as well as the card
\* of the destination
ErectWriteBarrier_BothCards(cards, dst, ref) ==
    IF dst < g_lowest_address \/ dst >= g_highest_address
    THEN cards
    ELSE IF ref >= g_ephemeral_low /\ ref < g_ephemeral_high
         THEN [c \in DOMAIN cards |->
                  IF c = card_byte(dst) \/ c = card_byte(ref)
                  THEN CardMarked ELSE cards[c]]
         ELSE cards

\* lines 90-105
ErectWriteBarrier(cards, dst, ref) ==
    IF dst < g_lowest_address \/ dst >= g_highest_address
    THEN cards
    ELSE IF ref >= g_ephemeral_low /\ ref < g_ephemeral_high
         THEN LET pCardByte == card_byte(dst)
              IN  IF cards[pCardByte] # CardMarked
                  THEN [cards EXCEPT ![pCardByte] = CardMarked]
                  ELSE cards
         ELSE cards

\* variant: the barrier is also erected for the reference the field held
\* before the store
WriteBarrierEffect_MarkOld(m, cards, dst, ref) ==
    [mem |-> Store(m, dst, ref),
     cards |-> ErectWriteBarrier(ErectWriteBarrier(cards, dst, Read(m, dst)),
                                 dst, ref)]

\* lines 107-111: the store, then the barrier
WriteBarrierEffect(m, cards, dst, ref) ==
    LET stored == Store(m, dst, ref)
    IN  [mem |-> stored, cards |-> ErectWriteBarrier(cards, dst, ref)]

\* the addresses of the reference fields of the heap's objects, which the
\* program knows from the type it allocated (line 203)
FieldAddrs ==
    UNION {{q + off : off \in SeriesOffsets(objects[q].mt)} :
              q \in DOMAIN objects}

\* history: which object a field now refers to
NoteField(objs, dst, ref) ==
    [q \in DOMAIN objs |->
        IF dst \in {q + off : off \in SeriesOffsets(objs[q].mt)}
        THEN [objs[q] EXCEPT !.fld = IF ref \in DOMAIN objs
                                     THEN objs[ref].id ELSE 0]
        ELSE objs[q]]

WriteBarrier(dst, ref) ==
    /\ ~crashed
    /\ LET e == WriteBarrierEffect(mem, g_card_table, dst, ref)
       IN  /\ mem' = e.mem
           /\ g_card_table' = e.cards
    /\ objects' = NoteField(objects, dst, ref)
    /\ ret' = 0
    /\ trace' = NoTrace
    /\ UNCHANGED <<ctx, handles, bounds4, crashed>>

----------------------------------------------------------------------------
(* The handle table (CreateGlobalHandle, CreateGlobalWeakHandle,           *)
(* DestroyGlobalHandle, ObjectFromHandle).  A handle is an index of the    *)
(* table; creation fails (returns 0) when the table cannot take another    *)
(* entry.                                                                  *)

FreeHandle == [kind |-> "free", slot |-> NULL, id |-> 0]

ObjectFromHandle(hnd, h) == hnd[h].slot

CreateHandleOfType(hnd, objs, kind, obj) ==
    {[handle |-> 0, handles |-> hnd]}
    \cup
    {[handle |-> h,
      handles |-> [hnd EXCEPT ![h] =
                      [kind |-> kind, slot |-> obj,
                       id |-> IF obj \in DOMAIN objs THEN objs[obj].id
                              ELSE 0]]] :
       h \in {x \in DOMAIN hnd :
                 /\ hnd[x].kind = "free"
                 /\ \A y \in DOMAIN hnd : hnd[y].kind = "free" => x <= y}}

DestroyHandle(hnd, h) == [hnd EXCEPT ![h] = FreeHandle]

CreateGlobalHandle(obj) ==
    /\ ~crashed
    /\ \E o \in CreateHandleOfType(handles, objects, "strong", obj) :
          /\ handles' = o.handles
          /\ ret' = o.handle
    /\ trace' = NoTrace
    /\ UNCHANGED <<ctx, mem, objects, g_card_table, bounds4, crashed>>

CreateGlobalWeakHandle(obj) ==
    /\ ~crashed
    /\ \E o \in CreateHandleOfType(handles, objects, "weak", obj) :
          /\ handles' = o.handles
          /\ ret' = o.handle
    /\ trace' = NoTrace
    /\ UNCHANGED <<ctx, mem, objects, g_card_table, bounds4, crashed>>

DestroyGlobalHandle(h) ==
    /\ ~crashed
    /\ h \in DOMAIN handles
    /\ handles[h].kind # "free"
    /\ handles' = DestroyHandle(handles, h)
    /\ ret' = 0
    /\ trace' = NoTrace
    /\ UNCHANGED <<ctx, mem, objects, g_card_table, bounds4, crashed>>

----------------------------------------------------------------------------
(* GCHeap::GarbageCollect: an explicit full collection.  The collector     *)
(* takes the allocation contexts back.                                     *)

GarbageCollect ==
    /\ ~crashed
    /\ \E mode \in GCModes :
          LET c == Collect(mem, objects, handles, mode)
          IN  /\ mem' = c.mem
              /\ objects' = c.objects
              /\ handles' = c.handles
              /\ trace' = [NoTrace EXCEPT !.gc = TRUE, !.moved = c.moved]
    /\ alloc_ptr' = 0
    /\ alloc_limit' = 0
    /\ ret' = 0
    /\ UNCHANGED <<g_card_table, bounds4, crashed>>

(* The collector's work on the card table: it clears a card after          *)
(* scanning it, and bit-level marking layered on the table may leave a     *)
(* clear card partially marked.                                            *)

HeapCards == card_byte(InitLowest) .. card_byte(InitHighest - 1)

CardPartial == 1

ClearCard(c) ==
    /\ ~crashed
    /\ g_card_table[c] # 0
    /\ g_card_table' = [g_card_table EXCEPT ![c] = 0]
    /\ ret' = 0
    /\ trace' = NoTrace
    /\ UNCHANGED <<ctx, mem, objects, handles, bounds4, crashed>>

SetCardBit(c) ==
    /\ ~crashed
    /\ g_card_table[c] = 0
    /\ g_card_table' = [g_card_table EXCEPT ![c] = CardPartial]
    /\ ret' = 0
    /\ trace' = NoTrace
    /\ UNCHANGED <<ctx, mem, objects, handles, bounds4, crashed>>

----------------------------------------------------------------------------
(* Initial state: the heap is initialised, the thread is attached, its     *)
(* allocation context is empty, the card table is clear, no handle exists. *)

ProgramInit ==
    /\ alloc_ptr = 0
    /\ alloc_limit = 0
    /\ mem = <<>>
    /\ objects = <<>>
    /\ handles = [h \in 1 .. NumHandles |-> FreeHandle]
    /\ g_card_table = [c \in CardIndices |-> 0]
    /\ g_lowest_address = InitLowest
    /\ g_highest_address = InitHighest
    /\ g_ephemeral_low = InitEphLow
    /\ g_ephemeral_high = InitEphHigh
    /\ crashed = FALSE
    /\ ret = 0
    /\ trace = NoTrace

NoHistory ==
    /\ last = <<>>
    /\ dirty = [c \in CardIndices |-> FALSE]
    /\ calls = 0

MainIdle ==
    /\ pc = "api"
    /\ pObj = NULL /\ oh = 0 /\ p = NULL /\ i = 0 /\ ohWeak = 0

\* one thread, the heap has not grown
SingleThread ==
    /\ threads = <<>>
    /\ old_card_table = <<>>

----------------------------------------------------------------------------
(* SpecAlloc: the allocator alone, called with every method table.  The    *)
(* history keeps the arguments of the call and the result of the call      *)
(* before it.                                                              *)

NoAlloc ==
    [mt |-> NULL, size |-> 0, prePtr |-> 0, preLimit |-> 0, result |-> 0,
     fast |-> FALSE, returned |-> FALSE, prevFast |-> FALSE,
     prevResult |-> 0, prevSize |-> 0]

InitAlloc ==
    /\ ProgramInit /\ MainIdle /\ SingleThread
    /\ last = NoAlloc
    /\ dirty = [c \in CardIndices |-> FALSE]
    /\ calls = 0

AllocStep(pMT) ==
    /\ AllocateObject(pMT)
    /\ last' = [mt |-> pMT, size |-> GetBaseSize(pMT), prePtr |-> alloc_ptr,
                preLimit |-> alloc_limit, result |-> ret',
                fast |-> trace'.calls = 0, returned |-> ~crashed',
                prevFast |-> last.returned /\ last.fast,
                prevResult |-> last.result, prevSize |-> last.size]
    /\ UNCHANGED <<dirty, calls, mainvars, extvars>>

NextAlloc == \E pMT \in AllMTs : AllocStep(pMT)

SpecAlloc == InitAlloc /\ [][NextAlloc]_vars

\* C1: allocations that fit in the current region return the value the
\* allocation pointer had before the call; the next call returns that
\* address plus the size of the previous call, so the addresses returned
\* are strictly increasing; and the allocation pointer never exceeds the
\* allocation limit.
C1_AllocationSequence ==
    /\ alloc_ptr <= alloc_limit
    /\ (last.returned /\ last.fast) => last.result = last.prePtr
    /\ (last.returned /\ last.fast /\ last.prevFast
           /\ last.prevResult # NULL) =>
           /\ last.result = last.prevResult + last.prevSize
           /\ last.result > last.prevResult

\* C2: when the object does not fit between the allocation pointer and the
\* allocation limit, the heap's Alloc is called exactly once and receives
\* the allocation context as it was before the call of AllocateObject.
C2_ExhaustedFastPath ==
    (last.returned /\ last.prePtr + last.size > last.preLimit) =>
        /\ trace.calls = 1
        /\ trace.ptr = last.prePtr
        /\ trace.limit = last.preLimit

\* a region that is in use is exhausted and the heap hands out a new one
C2_Witness ==
    /\ last.returned
    /\ last.prePtr # NULL
    /\ last.prePtr + last.size > last.preLimit
    /\ last.result # NULL
    /\ trace.calls = 1

\* an AllocateObject call has been made
AllocCalled == last.mt # NULL

\* the object fits between the allocation pointer and the allocation limit
Fits == last.prePtr + last.size <= last.preLimit

\* C11: an AllocateObject call for a size of 0 is rejected: it returns no
\* object and does not hand out the address the allocation pointer holds.
C11_ZeroSizeRejected ==
    (AllocCalled /\ last.returned /\ last.size = 0) => last.result = NULL

\* C12: AllocateObject returns null if and only if the object did not fit
\* and GCHeap::Alloc returned null; whenever the object fits, the call
\* returns an object and GCHeap::Alloc is not called.
C12_NullOnlyFromSlowPath ==
    AllocCalled =>
        /\ Fits => (last.returned /\ last.result # NULL /\ trace.calls = 0)
        /\ (last.returned /\ last.result = NULL) =>
               (~Fits /\ trace.calls = 1 /\ trace.obj = NULL)
        /\ (~Fits /\ trace.calls = 1 /\ trace.obj = NULL) =>
               (last.returned /\ last.result = NULL)

\* the alignment of the platform: the size of a pointer
Aligned(n) == n % PtrSize = 0

\* C13: the fast path advances the allocation pointer by a size rounded to
\* the alignment of the platform, so every address AllocateObject returns
\* is a multiple of that alignment.
C13_AlignedAddresses ==
    /\ (AllocCalled /\ last.returned /\ last.fast) =>
           Aligned(alloc_ptr - last.prePtr)
    /\ (AllocCalled /\ last.returned /\ last.result # NULL) =>
           Aligned(last.result)

\* C16: every non-null object AllocateObject returns, from the fast path
\* or from GCHeap::Alloc, holds the requested method table pointer in its
\* first word when the call returns; when GCHeap::Alloc returns null the
\* call writes no memory.
C16_HeaderWritten ==
    /\ [](( AllocCalled /\ last.returned /\ last.result # NULL) =>
             Read(mem, last.result) = last.mt)
    /\ [][(trace'.calls = 1 /\ trace'.obj = NULL) => mem' = mem]_vars

\* an object from the fast path is followed by an object from GCHeap::Alloc
C16_Witness ==
    /\ AllocCalled /\ last.returned /\ last.prevFast
    /\ trace.calls = 1
    /\ last.result # NULL
    /\ last.size > 0
    /\ Read(mem, last.result) = last.mt

----------------------------------------------------------------------------
(* SpecBarrier: the write barrier called on every field address and value  *)
(* of BarrierDsts and BarrierRefs, between the collector's steps on the    *)
(* card table.  The history keeps the arguments of the call, the value the *)
(* field and its card byte held before, and the card bytes that changed.   *)

NoBarrier ==
    [op |-> "none", dst |-> 0, ref |-> 0, oldValue |-> 0, byteBefore |-> 0,
     changed |-> {}, repeat |-> FALSE]

InitBarrier ==
    /\ ProgramInit /\ MainIdle /\ SingleThread
    /\ last = NoBarrier
    /\ dirty = [c \in CardIndices |-> FALSE]
    /\ calls = 0

Counted ==
    /\ calls < MaxCalls
    /\ calls' = calls + 1

\* a reference into the young generation was written into the card of dst
NoteDirty(d, dst, ref) ==
    IF InHeap(dst) /\ ref >= g_ephemeral_low /\ ref < g_ephemeral_high
    THEN [d EXCEPT ![card_byte(dst)] = TRUE]
    ELSE d

BarrierStep(dst, ref) ==
    /\ Counted
    /\ WriteBarrier(dst, ref)
    /\ last' = [op |-> "wb", dst |-> dst, ref |-> ref,
                oldValue |-> Read(mem, dst),
                byteBefore |-> g_card_table[card_byte(dst)],
                changed |-> {c \in CardIndices :
                               g_card_table'[c] # g_card_table[c]},
                repeat |-> (last.op = "wb" /\ last.dst = dst
                            /\ last.ref = ref)]
    /\ dirty' = NoteDirty(dirty, dst, ref)
    /\ UNCHANGED <<mainvars, extvars>>

ClearStep(c) ==
    /\ Counted
    /\ ClearCard(c)
    /\ last' = [NoBarrier EXCEPT !.op = "clear", !.dst = c]
    /\ dirty' = [dirty EXCEPT ![c] = FALSE]
    /\ UNCHANGED <<mainvars, extvars>>

SetBitStep(c) ==
    /\ Counted
    /\ SetCardBit(c)
    /\ last' = [NoBarrier EXCEPT !.op = "setbit", !.dst = c]
    /\ UNCHANGED <<dirty, mainvars, extvars>>

NextBarrier ==
    \/ \E dst \in BarrierDsts : \E ref \in BarrierRefs : BarrierStep(dst, ref)
    \/ \E c \in HeapCards : ClearStep(c)
    \/ \E c \in HeapCards : SetBitStep(c)

SpecBarrier == InitBarrier /\ [][NextBarrier]_vars

Ephemeral(ref) == ref >= g_ephemeral_low /\ ref < g_ephemeral_high

\* C3: when WriteBarrier returns from storing a reference of the ephemeral
\* range into a field inside the heap range, the card byte of the field is
\* 0xFF, whatever it held before.
C3_CardMarkedAfterStore ==
    (last.op = "wb" /\ InHeap(last.dst) /\ Ephemeral(last.ref)) =>
        g_card_table[card_byte(last.dst)] = CardMarked

\* the card byte held a partial mark before the call
C3_Witness ==
    /\ last.op = "wb" /\ InHeap(last.dst) /\ Ephemeral(last.ref)
    /\ last.byteBefore = CardPartial
    /\ last.changed = {card_byte(last.dst)}
    /\ g_card_table[card_byte(last.dst)] = CardMarked

\* C4: a WriteBarrier whose field lies below g_lowest_address or at or
\* above g_highest_address changes no card byte, also when the reference
\* stored is of the ephemeral range.
C4_NoMarkOutsideHeap ==
    (last.op = "wb" /\ ~InHeap(last.dst)) => last.changed = {}

\* an ephemeral reference is stored into a field at g_highest_address
C4_Witness ==
    /\ last.op = "wb"
    /\ last.dst >= g_highest_address
    /\ Ephemeral(last.ref)
    /\ Read(mem, last.dst) = last.ref
    /\ last.changed = {}

\* C5: WriteBarrier called a second time with the same field and reference
\* leaves the field and the card table as the first call left them.
C5_Idempotent ==
    last.op = "wb" =>
        /\ WriteBarrierEffect(mem, g_card_table, last.dst, last.ref)
               = [mem |-> mem, cards |-> g_card_table]
        /\ last.repeat => (last.changed = {} /\ last.oldValue = last.ref)

\* the second of two equal calls that mark a card
C5_Witness ==
    /\ last.op = "wb" /\ last.repeat
    /\ InHeap(last.dst) /\ Ephemeral(last.ref)
    /\ g_card_table[card_byte(last.dst)] = CardMarked

\* C6: a card of the heap range into which a reference of the ephemeral
\* range was stored since the collector last cleared it is marked, after any
\* sequence of WriteBarrier calls and card clearings.
C6_NoFalseNegative ==
    \A c \in HeapCards : dirty[c] => g_card_table[c] = CardMarked

\* the collector has just cleared one card while another is still dirty
C6_Witness ==
    /\ last.op = "clear"
    /\ ~dirty[last.dst] /\ g_card_table[last.dst] = 0
    /\ \E c \in HeapCards : dirty[c] /\ g_card_table[c] = CardMarked

\* C18: a WriteBarrier whose reference is null or otherwise outside the
\* ephemeral range changes no card byte, also when the reference the field
\* held before was of the ephemeral range.
C18_OnlyNewValueDecides ==
    (last.op = "wb" /\ ~Ephemeral(last.ref)) => last.changed = {}

\* a field of the heap range that held an ephemeral reference and whose card
\* the collector has cleared since is given a reference outside the
\* ephemeral range
C18_Witness ==
    /\ last.op = "wb"
    /\ InHeap(last.dst)
    /\ Ephemeral(last.oldValue)
    /\ ~Ephemeral(last.ref)
    /\ last.byteBefore = 0
    /\ last.changed = {}
    /\ Read(mem, last.dst) = last.ref

\* C19: one WriteBarrier call changes at most one card byte, the byte of the
\* card of the field written (not of the card of the reference stored), and
\* leaves the four heap bounds as they were.
C19_OneCardOfDst ==
    /\ last.op = "wb" => last.changed \subseteq {card_byte(last.dst)}
    /\ bounds4 = <<InitLowest, InitHighest, InitEphLow, InitEphHigh>>

\* the card of the field is marked and the reference lies in another card
C19_Witness ==
    /\ last.op = "wb"
    /\ card_byte(last.ref) # card_byte(last.dst)
    /\ last.changed = {card_byte(last.dst)}
    /\ g_card_table[card_byte(last.ref)] # CardMarked

----------------------------------------------------------------------------
(* Spec: the allocator, the barrier, the handle table and the collector    *)
(* called in any order on objects of the program's own type.               *)

Init == ProgramInit /\ NoHistory /\ MainIdle /\ SingleThread

Op ==
    /\ calls < MaxOps
    /\ calls' = calls + 1
    /\ UNCHANGED <<last, dirty, mainvars, extvars>>

Allocate(pMT) == Op /\ AllocateObject(pMT)

StoreField(dst, ref) == Op /\ WriteBarrier(dst, ref)

CreateStrong(obj) == Op /\ CreateGlobalHandle(obj)

CreateWeak(obj) == Op /\ CreateGlobalWeakHandle(obj)

Destroy(h) == Op /\ DestroyGlobalHandle(h)

CollectNow == Op /\ GarbageCollect

Next ==
    \/ \E pMT \in ProgramMTs : Allocate(pMT)
    \/ \E dst \in FieldAddrs :
          \E ref \in DOMAIN objects \cup {NULL} : StoreField(dst, ref)
    \/ \E obj \in DOMAIN objects : CreateStrong(obj)
    \/ \E obj \in DOMAIN objects : CreateWeak(obj)
    \/ \E h \in DOMAIN handles : Destroy(h)
    \/ CollectNow

Spec == Init /\ [][Next]_vars

StrongHandles == {h \in DOMAIN handles : handles[h].kind = "strong"}

WeakHandles == {h \in DOMAIN handles : handles[h].kind = "weak"}

\* history: the identities of the objects the program can reach, from the
\* strong handles through the fields it stored
RECURSIVE ReachIds(_)
ReachIds(ids) ==
    LET next == ids \cup ({objects[q].fld :
                              q \in {x \in DOMAIN objects :
                                        objects[x].id \in ids}} \ {0})
    IN  IF next = ids THEN ids ELSE ReachIds(next)

LiveIds == ReachIds({handles[h].id : h \in StrongHandles})

\* C8: after a collection, a weak handle whose referent the program can
\* still reach (from a strong handle, directly or through a field) reads as
\* a non-null reference to that same object at its current address.
C8_WeakKeepsLiveReferent ==
    trace.gc =>
        \A h \in WeakHandles :
            handles[h].id \in LiveIds =>
                /\ ObjectFromHandle(handles, h) # NULL
                /\ ObjectFromHandle(handles, h) \in DOMAIN objects
                /\ objects[ObjectFromHandle(handles, h)].id = handles[h].id

\* a collection has moved the referent of a weak handle, which the program
\* reaches only through a field of an object held by a strong handle
C8_Witness ==
    /\ trace.gc
    /\ \E h \in WeakHandles :
          /\ handles[h].id \in LiveIds
          /\ \A s \in StrongHandles : handles[s].id # handles[h].id
          /\ ObjectFromHandle(handles, h) \in trace.moved
          /\ objects[ObjectFromHandle(handles, h)].id = handles[h].id

\* C9: a strong handle that has not been destroyed reads as the current
\* address of the object it was created on, through any number of
\* collections that move the object, and the object keeps its method table
\* pointer and the reference its field was given.
C9_StrongHandleStable ==
    \A h \in StrongHandles :
        LET a == ObjectFromHandle(handles, h)
        IN  /\ a # NULL
            /\ a \in DOMAIN objects
            /\ objects[a].id = handles[h].id
            /\ Read(mem, a) = objects[a].mt
            /\ \A off \in SeriesOffsets(objects[a].mt) :
                   IF objects[a].fld = 0
                   THEN Read(mem, a + off) = NULL
                   ELSE /\ Read(mem, a + off) \in DOMAIN objects
                        /\ objects[Read(mem, a + off)].id = objects[a].fld

\* a collection inside AllocateObject has moved an object that a strong
\* handle holds and whose field refers to another object
C9_Witness ==
    /\ trace.gc /\ trace.calls = 1
    /\ \E h \in StrongHandles :
          /\ ObjectFromHandle(handles, h) \in trace.moved
          /\ objects[ObjectFromHandle(handles, h)].id = handles[h].id
          /\ objects[ObjectFromHandle(handles, h)].fld # 0

----------------------------------------------------------------------------
(* SpecMain: the sample's main program from its first allocation (line     *)
(* 180) on, the heap and the handle table being initialised.               *)

InitMain ==
    /\ ProgramInit /\ NoHistory /\ SingleThread
    /\ pc = "allocate"
    /\ pObj = NULL /\ oh = 0 /\ p = NULL /\ i = 0 /\ ohWeak = 0

\* lines 180-182
MainAllocate ==
    /\ pc = "allocate"
    /\ AllocateObject(pMyMethodTable)
    /\ pObj' = ret'
    /\ pc' = IF ret' = NULL THEN "failed" ELSE "handle"
    /\ UNCHANGED <<oh, p, i, ohWeak, history, extvars>>

\* lines 185-187
MainCreateHandle ==
    /\ pc = "handle"
    /\ CreateGlobalHandle(pObj)
    /\ oh' = ret'
    /\ pc' = IF ret' = 0 THEN "failed" ELSE "loop"
    /\ UNCHANGED <<pObj, p, i, ohWeak, history, extvars>>

\* lines 189-196
MainLoopAllocate ==
    /\ pc = "loop"
    /\ i < LoopCount
    /\ AllocateObject(pMyMethodTable)
    /\ p' = ret'
    /\ pc' = IF ret' = NULL THEN "failed" ELSE "store"
    /\ UNCHANGED <<pObj, oh, i, ohWeak, history, extvars>>

\* lines 198-205; offsetof(My, m_pOther) is the size of the object header
MainLoopStore ==
    /\ pc = "store"
    /\ WriteBarrier(ObjectFromHandle(handles, oh) + PtrSize, p)
    /\ i' = i + 1
    /\ pc' = "loop"
    /\ UNCHANGED <<pObj, oh, p, ohWeak, history, extvars>>

\* lines 189, 208-210
MainCreateWeak ==
    /\ pc = "loop"
    /\ ~(i < LoopCount)
    /\ CreateGlobalWeakHandle(ObjectFromHandle(handles, oh))
    /\ ohWeak' = ret'
    /\ pc' = IF ret' = 0 THEN "failed" ELSE "destroy"
    /\ UNCHANGED <<pObj, oh, p, i, history, extvars>>

\* variant: the strong handle is not destroyed
MainDestroy_Skipped ==
    /\ pc = "destroy"
    /\ pc' = "collect"
    /\ ret' = 0
    /\ trace' = NoTrace
    /\ UNCHANGED <<ctx, mem, objects, handles, g_card_table, bounds4,
                   crashed, pObj, oh, p, i, ohWeak, history, extvars>>

\* line 213
MainDestroy ==
    /\ pc = "destroy"
    /\ DestroyGlobalHandle(oh)
    /\ pc' = "collect"
    /\ UNCHANGED <<pObj, oh, p, i, ohWeak, history, extvars>>

\* line 216
MainCollect ==
    /\ pc = "collect"
    /\ GarbageCollect
    /\ pc' = "assert"
    /\ UNCHANGED <<pObj, oh, p, i, ohWeak, history, extvars>>

\* lines 219-221
MainAssert ==
    /\ pc = "assert"
    /\ pc' = IF ObjectFromHandle(handles, ohWeak) = NULL
             THEN "done" ELSE "assert_failed"
    /\ UNCHANGED <<ctx, mem, objects, handles, g_card_table, bounds4,
                   crashed, ret, trace, pObj, oh, p, i, ohWeak, history,
                   extvars>>

NextMain ==
    \/ MainAllocate
    \/ MainCreateHandle
    \/ MainLoopAllocate
    \/ MainLoopStore
    \/ MainCreateWeak
    \/ MainDestroy
    \/ MainCollect
    \/ MainAssert

SpecMain == InitMain /\ [][NextMain]_vars

\* C7: once the program has created the weak handle on the object of the
\* strong handle, destroyed the strong handle and run a full collection, the
\* weak handle reads as null: the weak handle did not keep the object alive.
C7_WeakHandleCleared ==
    pc \in {"assert", "done", "assert_failed"} =>
        /\ ObjectFromHandle(handles, ohWeak) = NULL
        /\ pc # "assert_failed"

\* the program has run to its end: the weak handle was created on an
\* object, the strong handle is destroyed and the collection has run
C7_Witness ==
    /\ pc = "done"
    /\ i = LoopCount
    /\ handles[oh].kind = "free"
    /\ handles[ohWeak].kind = "weak" /\ handles[ohWeak].id # 0
    /\ trace.gc
    /\ ObjectFromHandle(handles, ohWeak) = NULL

----------------------------------------------------------------------------
(* WriteBarrier step by step, run by several threads on the shared card    *)
(* table.  A step is one access to shared memory: the store to the field   *)
(* (line 109), the two comparisons with the heap range (line 94), the      *)
(* comparison with the ephemeral range (line 97), the load of g_card_table *)
(* (line 101), the load of the card byte (line 102) and its store (line    *)
(* 103).  A thread keeps the card table it loaded: when the heap has       *)
(* replaced the table since, the thread still works on the old one.        *)
(* The load of g_lowest_address is not ordered with the store of line 109  *)
(* by anything in the source, and optimised builds issue it first: a       *)
(* thread may take it before or after the store.                           *)

Threads == 1 .. NumThreads

\* the part of the heap range the heap adds when it grows
GrownHighest == InitHighest + 2 * CardSize

GrownIndices == 0 .. card_byte(GrownHighest)

\* fields written by the threads: two fields in two cards of the heap and a
\* field that lies in the heap range only once the heap has grown
ThreadDsts ==
    {InitLowest, InitEphLow + PtrSize, InitHighest + CardSize + PtrSize}

ThreadRefs == {NULL, InitEphLow}

\* stored: whether the call has executed line 109 ("no", "yes") and
\* whether another call has stored another value into the field since
\* ("overwritten"); low: the value of g_lowest_address the thread holds when
\* it has loaded it ahead of the store, else 0
IdleThread ==
    [pc |-> "idle", dst |-> 0, ref |-> 0, tbl |-> 0, byte |-> 0,
     stored |-> "no", low |-> 0]

\* the card tables are numbered as the heap installs them
CurrentTable == IF old_card_table = <<>> THEN 0 ELSE 1

TableOf(tbl) == IF tbl = CurrentTable THEN g_card_table ELSE old_card_table

\* variant: the load of g_card_table is hoisted above the comparisons with
\* the heap range
BarrierNext_LoadHoisted(at, taken) ==
    CASE at = "call"  -> "store"
      [] at = "store" -> "load"
      [] at = "load"  -> "low"
      [] at = "low"   -> IF taken THEN "ret" ELSE "high"
      [] at = "high"  -> IF taken THEN "ret" ELSE "eph"
      [] at = "eph"   -> IF taken THEN "read" ELSE "ret"
      [] at = "read"  -> IF taken THEN "write" ELSE "ret"
      [] at = "write" -> "ret"

\* variant: ErectWriteBarrier runs first and the field is stored last
BarrierNext_StoreLast(at, taken) ==
    CASE at = "call"  -> "low"
      [] at = "low"   -> IF taken THEN "store" ELSE "high"
      [] at = "high"  -> IF taken THEN "store" ELSE "eph"
      [] at = "eph"   -> IF taken THEN "load" ELSE "store"
      [] at = "load"  -> "read"
      [] at = "read"  -> IF taken THEN "write" ELSE "store"
      [] at = "write" -> "store"
      [] at = "store" -> "ret"

\* lines 94-110: the order of the steps; `taken' is the outcome of the
\* comparison made at the step
BarrierNext(at, taken) ==
    CASE at = "call"  -> "store"
      [] at = "store" -> "low"
      [] at = "low"   -> IF taken THEN "ret" ELSE "high"
      [] at = "high"  -> IF taken THEN "ret" ELSE "eph"
      [] at = "eph"   -> IF taken THEN "load" ELSE "ret"
      [] at = "load"  -> "read"
      [] at = "read"  -> IF taken THEN "write" ELSE "ret"
      [] at = "write" -> "ret"

\* line 102: the card byte read; a read outside the table yields any byte
CardRead(table, index) ==
    IF index \in DOMAIN table THEN {table[index]}
    ELSE {0, CardPartial, CardMarked}

\* variant: the store is two bytes wide and clears the byte of the next card
CardStore_Wide(table, index) ==
    [c \in DOMAIN table |->
        IF c = index THEN CardMarked
        ELSE IF c = index + 1 THEN 0
        ELSE table[c]]

\* line 103: the byte store
CardStore(table, index) ==
    [c \in DOMAIN table |-> IF c = index THEN CardMarked ELSE table[c]]

Goto(t, at, taken) ==
    threads' = [threads EXCEPT ![t].pc = BarrierNext(at, taken)]

\* a thread calls WriteBarrier(dst, ref)
WB_Call(t, dst, ref) ==
    /\ calls < MaxThreadCalls
    /\ threads[t].pc = "idle"
    /\ calls' = calls + 1
    /\ threads' = [threads EXCEPT ![t] =
                      [IdleThread EXCEPT !.pc = BarrierNext("call", TRUE),
                                         !.dst = dst, !.ref = ref]]
    /\ UNCHANGED <<ctx, mem, objects, handles, g_card_table, bounds4,
                   crashed, ret, trace, last, dirty, mainvars,
                   old_card_table>>

\* line 94: the load of g_lowest_address, issued ahead of the store
WB_LoadLowest(t) ==
    /\ threads[t].pc = "store"
    /\ threads[t].stored = "no"
    /\ threads[t].low = 0
    /\ threads' = [threads EXCEPT ![t].low = g_lowest_address]
    /\ UNCHANGED <<ctx, mem, objects, handles, g_card_table, bounds4,
                   crashed, ret, trace, history, mainvars, old_card_table>>

\* line 109
WB_Store(t) ==
    /\ threads[t].pc = "store"
    /\ mem' = Store(mem, threads[t].dst, threads[t].ref)
    /\ threads' =
          [u \in Threads |->
              IF u = t
              THEN [threads[t] EXCEPT !.pc = BarrierNext("store", TRUE),
                                      !.stored = "yes"]
              ELSE IF /\ threads[u].stored = "yes"
                      /\ threads[u].dst = threads[t].dst
                      /\ threads[u].ref # threads[t].ref
                   THEN [threads[u] EXCEPT !.stored = "overwritten"]
                   ELSE threads[u]]
    /\ UNCHANGED <<ctx, objects, handles, g_card_table, bounds4, crashed,
                   ret, trace, history, mainvars, old_card_table>>

\* line 94, left operand
WB_CheckLow(t) ==
    /\ threads[t].pc = "low"
    /\ LET lowest == IF threads[t].low # 0 THEN threads[t].low
                     ELSE g_lowest_address
       IN  threads' = [threads EXCEPT
                          ![t].pc = BarrierNext("low", threads[t].dst < lowest),
                          ![t].low = 0]
    /\ UNCHANGED <<ctx, mem, objects, handles, g_card_table, bounds4,
                   crashed, ret, trace, history, mainvars,
                   old_card_table>>

\* line 94, right operand
WB_CheckHigh(t) ==
    /\ threads[t].pc = "high"
    /\ Goto(t, "high", threads[t].dst >= g_highest_address)
    /\ UNCHANGED <<ctx, mem, objects, handles, g_card_table, bounds4,
                   crashed, ret, trace, history, mainvars,
                   old_card_table>>

\* line 97
WB_CheckEphemeral(t) ==
    /\ threads[t].pc = "eph"
    /\ Goto(t, "eph", threads[t].ref >= g_ephemeral_low
                      /\ threads[t].ref < g_ephemeral_high)
    /\ UNCHANGED <<ctx, mem, objects, handles, g_card_table, bounds4,
                   crashed, ret, trace, history, mainvars,
                   old_card_table>>

\* line 101: the volatile load of g_card_table
WB_LoadTable(t) ==
    /\ threads[t].pc = "load"
    /\ threads' = [threads EXCEPT ![t].pc = BarrierNext("load", TRUE),
                                  ![t].tbl = CurrentTable]
    /\ UNCHANGED <<ctx, mem, objects, handles, g_card_table, bounds4,
                   crashed, ret, trace, history, mainvars,
                   old_card_table>>

\* line 102
WB_ReadByte(t) ==
    /\ threads[t].pc = "read"
    /\ \E b \in CardRead(TableOf(threads[t].tbl), card_byte(threads[t].dst)) :
          threads' = [threads EXCEPT
                         ![t].pc = BarrierNext("read", b # CardMarked),
                         ![t].byte = b]
    /\ UNCHANGED <<ctx, mem, objects, handles, g_card_table, bounds4,
                   crashed, ret, trace, history, mainvars,
                   old_card_table>>

\* line 103
WB_WriteByte(t) ==
    /\ threads[t].pc = "write"
    /\ IF threads[t].tbl = CurrentTable
       THEN /\ g_card_table' = CardStore(g_card_table,
                                         card_byte(threads[t].dst))
            /\ UNCHANGED old_card_table
       ELSE /\ old_card_table' = CardStore(old_card_table,
                                           card_byte(threads[t].dst))
            /\ UNCHANGED g_card_table
    /\ Goto(t, "write", TRUE)
    /\ UNCHANGED <<ctx, mem, objects, handles, bounds4, crashed, ret, trace,
                   history, mainvars>>

\* lines 95, 105, 111: the call returns; the history notes the mark the
\* call owed
WB_Return(t) ==
    /\ threads[t].pc = "ret"
    /\ threads' = [threads EXCEPT ![t] = IdleThread]
    /\ dirty' = NoteDirty(dirty, threads[t].dst, threads[t].ref)
    /\ UNCHANGED <<ctx, mem, objects, handles, g_card_table, bounds4,
                   crashed, ret, trace, last, calls, mainvars,
                   old_card_table>>

InitThreads ==
    /\ ProgramInit /\ MainIdle
    /\ last = <<>>
    /\ dirty = [c \in GrownIndices |-> FALSE]
    /\ calls = 0
    /\ threads = [t \in Threads |-> IdleThread]
    /\ old_card_table = <<>>

----------------------------------------------------------------------------
(* SpecConc: the threads call WriteBarrier concurrently; the collector     *)
(* does not touch the card table and the heap does not grow.               *)

NextConc ==
    \/ \E t \in Threads : \E dst \in ThreadDsts : \E ref \in ThreadRefs :
          WB_Call(t, dst, ref)
    \/ \E t \in Threads : WB_LoadLowest(t)
    \/ \E t \in Threads : WB_Store(t)
    \/ \E t \in Threads : WB_CheckLow(t)
    \/ \E t \in Threads : WB_CheckHigh(t)
    \/ \E t \in Threads : WB_CheckEphemeral(t)
    \/ \E t \in Threads : WB_LoadTable(t)
    \/ \E t \in Threads : WB_ReadByte(t)
    \/ \E t \in Threads : WB_WriteByte(t)
    \/ \E t \in Threads : WB_Return(t)

SpecConc == InitThreads /\ [][NextConc]_vars

\* the thread has acted on the outcome of a comparison of line 94 or 97, has
\* accessed the card table, or is about to return
Decided(t) ==
    threads[t].pc \in {"high", "eph", "load", "read", "write", "ret"}

\* C10: a call of WriteBarrier stores ref into *dst before it acts on any
\* comparison of ErectWriteBarrier and before it touches the card table,
\* whatever dst and ref are: from the first decision to the return of the
\* call the store has been executed, and *dst = ref unless another call
\* has stored into the field since.
C10_StoreFirst ==
    \A t \in Threads :
        Decided(t) =>
            /\ threads[t].stored # "no"
            /\ threads[t].stored = "yes" =>
                   Read(mem, threads[t].dst) = threads[t].ref

\* a call with a field outside the heap range is about to return, its field
\* holding ref and no card marked, while the other thread, which loaded
\* g_lowest_address ahead of its store, has stored null and is going on to
\* the comparisons
C10_Witness ==
    \E t \in Threads : \E u \in Threads :
        /\ threads[t].pc = "ret"
        /\ threads[t].dst >= g_highest_address
        /\ threads[t].ref # NULL
        /\ threads[t].stored = "yes"
        /\ Read(mem, threads[t].dst) = threads[t].ref
        /\ threads[u].pc = "low"
        /\ threads[u].low # 0
        /\ threads[u].ref = NULL
        /\ threads[u].stored = "yes"
        /\ \A c \in DOMAIN g_card_table : g_card_table[c] = 0

\* C14: under every interleaving of WriteBarrier calls of several threads,
\* a card byte changes only from an unmarked value to 0xFF, and once a call
\* has returned the mark it owed is in the card table and stays there.
C14_MonotoneMarks ==
    /\ [][\A c \in DOMAIN g_card_table :
             g_card_table'[c] # g_card_table[c] =>
                /\ g_card_table[c] # CardMarked
                /\ g_card_table'[c] = CardMarked]_vars
    /\ [](\A c \in HeapCards : dirty[c] => g_card_table[c] = CardMarked)

\* two threads have both read the same card byte as unmarked and are both
\* about to store into it, while another card is already marked
C14_Witness ==
    \E t \in Threads : \E u \in Threads :
        /\ t # u
        /\ threads[t].pc = "write" /\ threads[u].pc = "write"
        /\ card_byte(threads[t].dst) = card_byte(threads[u].dst)
        /\ threads[t].byte = 0 /\ threads[u].byte = 0

----------------------------------------------------------------------------
(* SpecGrow: the threads call WriteBarrier while the heap grows.  The heap *)
(* first installs a card table that covers the grown range, with the marks *)
(* of the old one, and then raises g_highest_address.                      *)

GrowInstallTable ==
    /\ old_card_table = <<>>
    /\ old_card_table' = g_card_table
    /\ g_card_table' = [c \in GrownIndices |->
                           IF c \in DOMAIN g_card_table
                           THEN g_card_table[c] ELSE 0]
    /\ UNCHANGED <<ctx, mem, objects, handles, bounds4, crashed, ret, trace,
                   history, mainvars, threads>>

GrowWidenBounds ==
    /\ old_card_table # <<>>
    /\ g_highest_address = InitHighest
    /\ g_highest_address' = GrownHighest
    /\ UNCHANGED <<ctx, mem, objects, handles, g_card_table,
                   g_lowest_address, g_ephemeral_low, g_ephemeral_high,
                   crashed, ret, trace, history, mainvars, extvars>>

NextGrow ==
    \/ NextConc
    \/ GrowInstallTable
    \/ GrowWidenBounds

SpecGrow == InitThreads /\ [][NextGrow]_vars

\* C17: a thread that has passed the comparisons with the heap range works
\* on a card table that covers its field: g_card_table is loaded after the
\* comparisons, so a thread that saw the raised g_highest_address has the
\* card table the heap installed before raising it.
C17_TableCoversField ==
    \A t \in Threads :
        threads[t].pc \in {"read", "write"} =>
            card_byte(threads[t].dst) \in DOMAIN TableOf(threads[t].tbl)

\* a thread is about to mark the card of a field of the grown range, which
\* the old card table does not cover
C17_Witness ==
    \E t \in Threads :
        /\ threads[t].pc = "write"
        /\ threads[t].dst >= InitHighest
        /\ card_byte(threads[t].dst) \notin DOMAIN old_card_table
        /\ threads[t].tbl = CurrentTable
        /\ old_card_table # <<>>

----------------------------------------------------------------------------
(* AllocateObject step by step, run by several threads.  Every thread has  *)
(* its own alloc_context (line 57), empty at first; GCHeap::Alloc, under   *)
(* the lock of the heap, points the context it is handed at a region no    *)
(* context has had, or fails.  A step is one access to an alloc_context or *)
(* to the heap.  No collection runs while the threads allocate, and the    *)
(* heap hands out its regions in the order of their addresses.             *)

\* the regions the heap can hand out: one more than there are threads
ThreadRegions ==
    {InitEphLow + k * (2 * RegionSize) : k \in 0 .. NumThreads}

IdleAllocator ==
    [pc |-> "idle", pMT |-> NULL, size |-> 0, result |-> NULL,
     advance |-> 0, pObject |-> NULL]

\* a thread: its alloc_context and its position in AllocateObject
InitAllocator ==
    [alloc_ptr |-> 0, alloc_limit |-> 0, at |-> IdleAllocator]

\* variant: every thread is handed the alloc_context of the first thread
GetAllocContext_Shared(t) == 1

\* line 57: GetThread()->GetAllocContext()
GetAllocContext(t) == t

\* the objects handed out so far, as the history records them
Allocated == last

NoteAllocated(t, addr, size) ==
    IF addr = NULL THEN Allocated
    ELSE Allocated \cup {[thread |-> t, addr |-> addr, size |-> size]}

\* a region is handed out when a context ends at its end or an object lies
\* in it
RegionHanded(base) ==
    \/ \E t \in Threads : threads[t].alloc_limit = base + RegionSize
    \/ \E a \in Allocated : a.addr >= base /\ a.addr < base + RegionSize

\* lines 55-60
AO_Call(t, pMT) ==
    /\ calls < MaxAllocCalls
    /\ ~crashed
    /\ threads[t].at.pc = "idle"
    /\ calls' = calls + 1
    /\ threads' = [threads EXCEPT ![t].at =
                      [IdleAllocator EXCEPT !.pc = "load", !.pMT = pMT,
                                            !.size = GetBaseSize(pMT)]]
    /\ UNCHANGED <<ctx, mem, objects, handles, g_card_table, bounds4,
                   crashed, ret, trace, last, dirty, mainvars,
                   old_card_table>>

\* lines 62-63
AO_LoadPtr(t) ==
    /\ ~crashed
    /\ threads[t].at.pc = "load"
    /\ LET result == threads[GetAllocContext(t)].alloc_ptr
       IN  threads' = [threads EXCEPT
                          ![t].at.pc = "check",
                          ![t].at.result = result,
                          ![t].at.advance = result + threads[t].at.size]
    /\ UNCHANGED <<ctx, mem, objects, handles, g_card_table, bounds4,
                   crashed, ret, trace, history, mainvars,
                   old_card_table>>

\* line 64
AO_CheckLimit(t) ==
    /\ ~crashed
    /\ threads[t].at.pc = "check"
    /\ threads' = [threads EXCEPT ![t].at.pc =
                      IF threads[t].at.advance
                            <= threads[GetAllocContext(t)].alloc_limit
                      THEN "bump" ELSE "slow"]
    /\ UNCHANGED <<ctx, mem, objects, handles, g_card_table, bounds4,
                   crashed, ret, trace, history, mainvars,
                   old_card_table>>

\* lines 66-67
AO_Bump(t) ==
    /\ ~crashed
    /\ threads[t].at.pc = "bump"
    /\ threads' = [threads EXCEPT
                      ![GetAllocContext(t)].alloc_ptr = threads[t].at.advance,
                      ![t].at.pc = "header",
                      ![t].at.pObject = threads[t].at.result]
    /\ last' = NoteAllocated(t, threads[t].at.result, threads[t].at.size)
    /\ UNCHANGED <<ctx, mem, objects, handles, g_card_table, bounds4,
                   crashed, ret, trace, dirty, calls, mainvars,
                   old_card_table>>

\* lines 71-73: GCHeap::Alloc fails, or points the context at a fresh region
\* and returns the object allocated at its start
AO_Slow(t) ==
    /\ ~crashed
    /\ threads[t].at.pc = "slow"
    /\ \/ /\ threads' = [threads EXCEPT ![t].at.pc = "ret",
                                        ![t].at.pObject = NULL]
          /\ UNCHANGED <<mem, last>>
       \/ \E base \in ThreadRegions :
             /\ ~RegionHanded(base)
             /\ \A b \in ThreadRegions : b < base => RegionHanded(b)
             /\ threads[t].at.size <= RegionSize
             /\ threads' = [threads EXCEPT
                               ![GetAllocContext(t)].alloc_ptr =
                                   base + threads[t].at.size,
                               ![GetAllocContext(t)].alloc_limit =
                                   base + RegionSize,
                               ![t].at.pc = "header",
                               ![t].at.pObject = base]
             /\ mem' = ZeroRegion(mem, base)
             /\ last' = NoteAllocated(t, base, threads[t].at.size)
    /\ UNCHANGED <<ctx, objects, handles, g_card_table, bounds4, crashed,
                   ret, trace, dirty, calls, mainvars,
                   old_card_table>>

\* line 76; through a null pointer the store faults or lands at address
\* zero
AO_SetMethodTable(t) ==
    /\ ~crashed
    /\ threads[t].at.pc = "header"
    /\ \/ /\ mem' = SetMethodTable(mem, threads[t].at.pObject,
                                   threads[t].at.pMT)
          /\ UNCHANGED crashed
       \/ /\ threads[t].at.pObject = NULL
          /\ crashed' = TRUE
          /\ UNCHANGED mem
    /\ threads' = [threads EXCEPT ![t].at.pc = "ret"]
    /\ UNCHANGED <<ctx, objects, handles, g_card_table, bounds4, ret, trace,
                   history, mainvars, old_card_table>>

\* lines 73, 78
AO_Return(t) ==
    /\ ~crashed
    /\ threads[t].at.pc = "ret"
    /\ ret' = threads[t].at.pObject
    /\ threads' = [threads EXCEPT ![t].at = IdleAllocator]
    /\ UNCHANGED <<ctx, mem, objects, handles, g_card_table, bounds4,
                   crashed, trace, history, mainvars,
                   old_card_table>>

InitAllocators ==
    /\ ProgramInit /\ MainIdle
    /\ last = {}
    /\ dirty = [c \in CardIndices |-> FALSE]
    /\ calls = 0
    /\ threads = [t \in Threads |-> InitAllocator]
    /\ old_card_table = <<>>

NextThreads ==
    \/ \E t \in Threads : \E pMT \in AllMTs : AO_Call(t, pMT)
    \/ \E t \in Threads : AO_LoadPtr(t)
    \/ \E t \in Threads : AO_CheckLimit(t)
    \/ \E t \in Threads : AO_Bump(t)
    \/ \E t \in Threads : AO_Slow(t)
    \/ \E t \in Threads : AO_SetMethodTable(t)
    \/ \E t \in Threads : AO_Return(t)

SpecThreads == InitAllocators /\ [][NextThreads]_vars

\* C20: when threads allocate concurrently, each through its own
\* alloc_context, the byte ranges [addr, addr + size) of the objects handed
\* out are pairwise disjoint in every interleaving, and a step changes the
\* alloc_ptr or alloc_limit of a thread only if that thread takes the step.
C20_DisjointAllocations ==
    /\ [](\A a \in Allocated : \A b \in Allocated :
             a # b => (a.addr + a.size <= b.addr \/ b.addr + b.size <= a.addr))
    /\ [][\A u \in Threads :
             (\/ threads'[u].alloc_ptr # threads[u].alloc_ptr
              \/ threads'[u].alloc_limit # threads[u].alloc_limit)
                => threads'[u].at.pc # threads[u].at.pc]_vars

\* two threads have both passed the comparison of line 64 and are both
\* about to bump their allocation pointers, with objects handed out to
\* both of them before
C20_Witness ==
    \E t \in Threads : \E u \in Threads :
        /\ t # u
        /\ threads[t].at.pc = "bump" /\ threads[u].at.pc = "bump"
        /\ threads[t].at.size > 0 /\ threads[u].at.size > 0
        /\ \E a \in Allocated : a.thread = t
        /\ \E b \in Allocated : b.thread = u

====
